---- MODULE Spec2Model ----
(***************************************************************************)
(* A model of db_sync_manager's replication engine: the Data Processor     *)
(* (column mapping, transform, buffer), the per-job cycle                  *)
(* create -> populate -> swap -> cleanup of SyncService, the two target    *)
(* connectors' table operations, and the Run loop with its ticker.         *)
(*                                                                         *)
(* The target database is a map from table names to row sequences.  Each   *)
(* SQL statement a connector issues is one atomic change of that map; a    *)
(* DDL statement (DROP, CREATE, RENAME) takes effect when it is executed   *)
(* and is not undone by a later Rollback, as on both engines.  The source  *)
(* connector is taken at its contract: GetCount returns the row count and  *)
(* GetBatch the rows at [offset, offset+limit), or either returns an error.*)
(***************************************************************************)
EXTENDS Integers, Sequences, FiniteSets, TLC

\* ------------------------------------------------------------------ bounds
MaxRows == 3
MaxBatch == 2
MaxCycles == 2
MaxChanges == 1

\* ------------------------------------------------------------- column names
\* A column name is a sequence of characters, so that normalisation can be
\* computed as strings.ToLower(strings.ReplaceAll(name, "_", "")) computes it.
VENDOR_NAME == <<"V","E","N","D","O","R","_","N","A","M","E">>
MODEL_NAME == <<"M","O","D","E","L","_","N","A","M","E">>
TAC == <<"T","A","C">>
vendorName == <<"v","e","n","d","o","r","N","a","m","e">>
vendor_name == <<"v","e","n","d","o","r","_","n","a","m","e">>
modelName == <<"m","o","d","e","l","N","a","m","e">>
tac == <<"t","a","c">>
id == <<"i","d">>

UpperCs == <<"A","C","D","E","L","M","N","O","R","T","V">>
LowerCs == <<"a","c","d","e","l","m","n","o","r","t","v">>

ToLowerChar(c) ==
  IF \E i \in 1..Len(UpperCs) : UpperCs[i] = c
  THEN LowerCs[CHOOSE i \in 1..Len(UpperCs) : UpperCs[i] = c]
  ELSE c

ToLower(s) == [i \in 1..Len(s) |-> ToLowerChar(s[i])]

RECURSIVE RemoveUnderscores(_)
RemoveUnderscores(s) ==
  IF s = <<>> THEN <<>>
  ELSE IF Head(s) = "_" THEN RemoveUnderscores(Tail(s))
       ELSE <<Head(s)>> \o RemoveUnderscores(Tail(s))

GetColumnName(col, isMapping) ==
  IF isMapping THEN ToLower(RemoveUnderscores(col.Name)) ELSE col.Name

\* ------------------------------------------------------------------ schemas
ColumnInfo(name, auto) == [Name |-> name, AutoIncrement |-> auto]

NilSchema == [isNil |-> TRUE, Columns |-> <<>>]

TableSchema(cols) == [isNil |-> FALSE, Columns |-> cols]

\* --------------------------------------------------------------- processor
EmptyRecord == [k \in {} |-> ""]

NULL == "NULL"

Put(r, k, v) == [x \in DOMAIN r \cup {k} |-> IF x = k THEN v ELSE r[x]]

Delete(r, k) == [x \in DOMAIN r \ {k} |-> r[x]]

RenameKey(r, from, to) ==
  IF from \in DOMAIN r THEN Delete(Put(r, to, r[from]), from) ELSE r

TransformForModelPhones(r) ==
  RenameKey(RenameKey(RenameKey(r, VENDOR_NAME, vendorName),
                      MODEL_NAME, modelName), TAC, tac)

\* The nil Record: what a transform returns for a record it drops.
NilRecord == [k \in {<<"nil">>} |-> NULL]

\* A transform function that returns nil for the records of source row 1
\* and every other record as it is.
TransformDropping(r) ==
  IF \E k \in DOMAIN r : r[k] = "1.1" THEN NilRecord ELSE r

Transform(fn, r) ==
  IF fn = "transformDataModelPhones" THEN TransformForModelPhones(r)
  ELSE IF fn = "transformDropping" THEN TransformDropping(r)
  ELSE r

\* The last target column, in schema order, with the same normalised name:
\* the inner loop without its break.
LastMatch(srcCol, tgt) ==
  LET I == {j \in 1..Len(tgt.Columns) :
              GetColumnName(srcCol, TRUE) = GetColumnName(tgt.Columns[j], TRUE)}
  IN  IF I = {} THEN 0 ELSE CHOOSE j \in I : \A k \in I : j >= k

\* The first target column, in schema order, with the same normalised name.
FirstMatch(srcCol, tgt) ==
  LET I == {j \in 1..Len(tgt.Columns) :
              GetColumnName(srcCol, TRUE) = GetColumnName(tgt.Columns[j], TRUE)}
  IN  IF I = {} THEN 0 ELSE CHOOSE j \in I : \A k \in I : j <= k

RECURSIVE MappingUpTo(_, _, _)
MappingUpTo(src, tgt, n) ==
  IF n = 0 THEN EmptyRecord
  ELSE LET m == MappingUpTo(src, tgt, n - 1)
           c == src.Columns[n]
           j == FirstMatch(c, tgt)
       IN  IF j = 0 THEN m ELSE Put(m, c.Name, tgt.Columns[j].Name)

createColumnMapping(src, tgt) ==
  IF src.isNil \/ tgt.isNil THEN EmptyRecord
  ELSE MappingUpTo(src, tgt, Len(src.Columns))

\* mu is the processor's mutex: 0 when unlocked, else the task holding it.
NewDataProcessor(src, tgt, fn) ==
  [sourceSchema |-> src, targetSchema |-> tgt, transform |-> fn,
   columnMapping |-> createColumnMapping(src, tgt), mu |-> 0]

\* processRecord's choice of the output key of one source column.
TargetName(p, col) ==
  IF (~p.targetSchema.isNil) /\ col.Name \in DOMAIN p.columnMapping
  THEN p.columnMapping[col.Name] ELSE col.Name

RECURSIVE MapColumns(_, _, _)
MapColumns(p, record, n) ==
  IF n = 0 THEN EmptyRecord
  ELSE LET done == MapColumns(p, record, n - 1)
           col == p.sourceSchema.Columns[n]
       IN  IF GetColumnName(col, FALSE) \in DOMAIN record
           THEN Put(done, TargetName(p, col), record[GetColumnName(col, FALSE)])
           ELSE done

processRecord(p, record) ==
  IF p.sourceSchema.isNil THEN Transform(p.transform, record)
  ELSE Transform(p.transform,
                 MapColumns(p, record, Len(p.sourceSchema.Columns)))

NotNil(r) == r # NilRecord

\* Process: the buffer after appending every processed record of the batch
\* that is not nil.
Process(p, buf, batch) ==
  buf \o SelectSeq([i \in 1..Len(batch) |-> processRecord(p, batch[i])], NotNil)

Min(a, b) == IF a < b THEN a ELSE b

\* A GetBatch that returns the newest records of the buffer.
GetBatchTakenNewest(buf, size) ==
  SubSeq(buf, Len(buf) - Min(size, Len(buf)) + 1, Len(buf))

\* DataProcessor.GetBatch: the drained prefix and the remaining buffer.
GetBatchTaken(buf, size) == SubSeq(buf, 1, Min(size, Len(buf)))

\* A GetBatch that returns the prefix and leaves it in the buffer.
GetBatchRestKept(buf, size) == buf

GetBatchRest(buf, size) == SubSeq(buf, Min(size, Len(buf)) + 1, Len(buf))

RECURSIVE NonAutoColumns(_)
NonAutoColumns(cols) ==
  IF cols = <<>> THEN <<>>
  ELSE IF Head(cols).AutoIncrement THEN NonAutoColumns(Tail(cols))
       ELSE <<Head(cols).Name>> \o NonAutoColumns(Tail(cols))

\* The names of all the columns, autoincrement ones included.
AllColumns(p) ==
  IF p.targetSchema.isNil THEN <<>>
  ELSE [i \in 1..Len(p.targetSchema.Columns) |-> p.targetSchema.Columns[i].Name]

GetTargetColumns(p) ==
  IF p.targetSchema.isNil THEN <<>> ELSE NonAutoColumns(p.targetSchema.Columns)

\* ----------------------------------------------------------- configuration
TargetTable == "t"

SourceColumns == <<VENDOR_NAME, TAC, MODEL_NAME>>

\* The schema ExecuteSelectWithSchema reports for the source table.
IntrospectedSourceSchema ==
  TableSchema([i \in 1..Len(SourceColumns) |-> ColumnInfo(SourceColumns[i], FALSE)])

\* The target schema NewSyncService builds from the configured column list.
ConfiguredTargetSchema ==
  TableSchema(<<ColumnInfo(id, TRUE), ColumnInfo(vendorName, FALSE),
                ColumnInfo(tac, FALSE)>>)

PostProcedure == <<"update_stats", "send_notification">>

Engines == {"mariadb", "oracle"}

\* A key of the configuration file is written with a value, <<value>>, or
\* left out.
Omitted == <<>>

Written(value) == <<value>>

\* The sync entries of configuration files: temp_table_suffix and
\* sync_interval (in minutes) are written or left out; a transform function
\* is configured for a query source (a table source's columns are renamed by
\* the mapping alone).
ConfigFiles ==
  {f \in [engine : Engines, srcKind : {"table", "query"},
          batch_size : 1..MaxBatch, temp_table_suffix : {Written("_temp"), Omitted},
          sync_interval : {Written(5), Omitted},
          transform_function : {"", "transformDataModelPhones"}] :
     f.srcKind = "table" => f.transform_function = ""}

\* decoder.Decode for one field of SyncConfig: the written value, or the
\* zero value of the field's type when the key is left out.  Nothing reads
\* the default tags of the struct.
Decode(key, zero) == IF key = Omitted THEN zero ELSE key[1]

\* GetConfig: the SyncConfig decoded from a file's sync entry.
GetConfig(f) ==
  [engine |-> f.engine, srcKind |-> f.srcKind,
   BatchSize |-> f.batch_size,
   TempTableSuffix |-> Decode(f.temp_table_suffix, ""),
   SyncInterval |-> Decode(f.sync_interval, 0),
   TransformFunction |-> f.transform_function]

\* The configurations of the job.
SyncConfigs == {GetConfig(f) : f \in ConfigFiles}

\* ------------------------------------------------------------------- state
VARIABLES
  cfg,         \* the job's SyncConfig, with the target connector's engine
  source,      \* rows of the source table or query result, by row number
  changes,     \* how many times the source has been modified
  tables,      \* the target database: table name -> sequence of rows
  processor,   \* the job's DataProcessor (schemas, mapping, transform)
  buffer,      \* DataProcessor.buffer
  sourceData,  \* DataProcessor.sourceData (the preloaded records)
  dataLoaded,  \* DataProcessor.dataLoaded
  pc,          \* the job task's position
  offset, totalCount, batchSize,   \* processData's locals
  procIdx,     \* syncTables' index into PostProcedure
  ticker,      \* Run's ticker: "none", "idle" or "pending" (a tick is buffered)
  cycles,      \* cycles started so far
  calls,       \* history: the connector calls of the current or last cycle
  result,      \* history: what the last syntTables call returned, and where
  preLive,     \* history: the live table when the current cycle started
  cycleSrc,    \* history: the source rows when the current cycle started
  inserted,    \* history: the rows InsertBatch committed in the current cycle
  repeat,      \* history: the previous cycle succeeded on these source rows
  batchIn,     \* history: the records handed to DataProcessor.Process
  drained,     \* history: the records DataProcessor.GetBatch returned
  mainPc,      \* main's position
  connections, \* main's registry: database name -> "none", "ok" or "failed"
  err,         \* main's variable err, which every job goroutine assigns
  tasks,       \* the job goroutines: position, syncService, cycles started
  quit         \* main has received the shutdown signal

vars == <<cfg, source, changes, tables, processor, buffer, sourceData,
          dataLoaded, pc, offset, totalCount, batchSize, procIdx, ticker,
          cycles, calls, result, preLive, cycleSrc, inserted, repeat,
          batchIn, drained, mainPc, connections, err, tasks, quit>>

\* The state of main and of its job goroutines.
mainVars == <<mainPc, connections, err, tasks, quit>>

\* The history of a data processor driven on its own; a job's task leaves
\* it alone.
processorIO == <<batchIn, drained>>

\* ------------------------------------------------------ main's configuration
MaxJobs == 2

OracleDBs == <<"ora1", "ora2">>

MariaDBs == <<"maria1", "maria2">>

\* The order in which main connects: cfg.Oracle, then cfg.MariaDB.
Databases == OracleDBs \o MariaDBs

Jobs == 1..MaxJobs

\* The table jobs of cfg.Sync: job j copies from SourceDB(j) to TargetDB(j).
SourceDB(j) == OracleDBs[((j - 1) % Len(OracleDBs)) + 1]

TargetDB(j) == MariaDBs[((j - 1) % Len(MariaDBs)) + 1]

NoTask == [pc |-> "none", syncService |-> "none", cycles |-> 0]

\* Before main runs: what a job or a data processor taken alone has of main.
MainNotStarted ==
  /\ mainPc = "connect"
  /\ connections = [d \in {Databases[i] : i \in 1..Len(Databases)} |-> "none"]
  /\ err = "nil"
  /\ tasks = [j \in Jobs |-> NoTask]
  /\ quit = FALSE

\* ------------------------------------------------------------- source rows
SourceValue(k, j) == ToString(k) \o "." \o ToString(j)

SourceRecord(k) ==
  [c \in {SourceColumns[j] : j \in 1..Len(SourceColumns)} |->
     SourceValue(k, CHOOSE j \in 1..Len(SourceColumns) : SourceColumns[j] = c)]

SourceRecords(rows) == [i \in 1..Len(rows) |-> SourceRecord(rows[i])]

\* Source connector GetBatch, at its contract: the rows at [off, off+limit).
SourceGetBatch(rows, off, limit) ==
  SourceRecords(SubSeq(rows, off + 1, Min(off + limit, Len(rows))))

OldRow == [c \in {vendorName, tac} |-> "old"]

\* What a read of a table that does not exist yields: no row sequence of the
\* database equals it.
Absent == <<[c \in {<<"absent">>} |-> "absent"]>>

\* ---------------------------------------------------------- target tables
Exists(t, name) == name \in DOMAIN t

DropT(t, name) == [n \in DOMAIN t \ {name} |-> t[n]]

CreateT(t, name) == Put(t, name, <<>>)

RenameOK(t, from, to) == from \in DOMAIN t /\ to \notin DOMAIN t

RenameT(t, from, to) == Delete(Put(t, to, t[from]), from)

Read(t, name) == IF name \in DOMAIN t THEN t[name] ELSE Absent

Range(s) == {s[i] : i \in 1..Len(s)}

\* One inserted row: the value of each listed column, NULL where the record
\* has no such key.
InsertRow(rec, columns) ==
  [c \in Range(columns) |-> IF c \in DOMAIN rec THEN rec[c] ELSE NULL]

InsertColumns(records, columns) ==
  IF Len(columns) = 0
  THEN CHOOSE cs \in [1..Cardinality(DOMAIN records[1]) -> DOMAIN records[1]] :
         Range(cs) = DOMAIN records[1]
  ELSE columns

\* The rows one InsertBatch call writes.
BatchRows(records, columns) ==
  IF Len(records) = 0 THEN <<>>
  ELSE [i \in 1..Len(records) |->
          InsertRow(records[i], InsertColumns(records, columns))]

\* InsertBatch's effect when it commits.
InsertBatch(t, name, records, columns) ==
  IF Len(records) = 0 THEN t
  ELSE Put(t, name, t[name] \o BatchRows(records, columns))

TempTableName(c) == TargetTable \o c.TempTableSuffix

MariaBackupName(originalTable) == originalTable \o "_backup"

\* time.Now().Format("20060102150405") of the cycle's swap, one per cycle.
TimeStamp(n) == "2006010215040" \o ToString(n)

OracleBackupName(originalTable, n) == originalTable \o "_backup_" \o TimeStamp(n)

Call(op, res, off, n) ==
  [op |-> op, res |-> res, off |-> off, n |-> n, columns |-> <<>>,
   limit |-> 0]

\* The record of a source GetBatch(table, offset, limit, schema) call that
\* returned n records.
CallGetBatch(res, off, n, limit) ==
  [Call("GetBatch", res, off, n) EXCEPT !.limit = limit]

\* The record of an InsertBatch(table, records, columns) call.
CallInsertBatch(res, off, n, columns) ==
  [Call("InsertBatch", res, off, n) EXCEPT !.columns = columns]

\* -------------------------------------------------------------------- Init
Init ==
  /\ cfg \in SyncConfigs
  /\ source \in {[i \in 1..n |-> i] : n \in 0..MaxRows}
  /\ changes = 0
  /\ tables \in {[n \in {TargetTable} |-> <<OldRow>>], [n \in {} |-> <<>>]}
  /\ processor = NewDataProcessor(NilSchema, NilSchema, "")
  /\ buffer = <<>>
  /\ sourceData = <<>>
  /\ dataLoaded = FALSE
  /\ pc = "new"
  /\ offset = 0
  /\ totalCount = 0
  /\ batchSize = 0
  /\ procIdx = 0
  /\ ticker = "none"
  /\ cycles = 0
  /\ calls = <<>>
  /\ result = [status |-> "none", step |-> ""]
  /\ preLive = Absent
  /\ cycleSrc = <<>>
  /\ inserted = <<>>
  /\ repeat = FALSE
  /\ batchIn = <<>>
  /\ drained = <<>>
  /\ MainNotStarted

\* ---------------------------------------------------------- NewSyncService
\* A table source has its schema introspected (an error fails the creation);
\* a query source has its rows fetched once (an error is logged and skipped).
NewSyncService ==
  /\ UNCHANGED <<processorIO, mainVars>>
  /\ pc = "new"
  /\ \E ok \in BOOLEAN :
       IF cfg.srcKind = "table"
       THEN /\ processor' = IF ok
                            THEN NewDataProcessor(IntrospectedSourceSchema,
                                                  ConfiguredTargetSchema,
                                                  cfg.TransformFunction)
                            ELSE processor
            /\ pc' = IF ok THEN "run" ELSE "notstarted"
            /\ UNCHANGED <<sourceData, dataLoaded>>
       ELSE /\ processor' = NewDataProcessor(NilSchema, ConfiguredTargetSchema,
                                             cfg.TransformFunction)
            /\ sourceData' = IF ok THEN SourceRecords(source) ELSE <<>>
            /\ dataLoaded' = (ok /\ Len(source) > 0)
            /\ pc' = "run"
  /\ UNCHANGED <<cfg, source, changes, tables, buffer, offset, totalCount,
                 batchSize, procIdx, ticker, cycles, calls, result, preLive,
                 cycleSrc, inserted, repeat>>

\* ---------------------------------------------------------------- the cycle
\* syncTables is entered: the history variables record what the cycle starts from.
BeginCycle ==
  /\ cycles' = cycles + 1
  /\ calls' = <<>>
  /\ result' = [status |-> "running", step |-> ""]
  /\ preLive' = Read(tables, TargetTable)
  /\ cycleSrc' = source
  /\ inserted' = <<>>
  /\ repeat' = (result.status = "ok" /\ source = cycleSrc)
  /\ pc' = "create"

\* syncTables returns; after the first cycle Run creates its ticker, and
\* time.NewTicker panics when the interval is not positive.
Return(status, step) ==
  /\ result' = [status |-> status, step |-> step]
  /\ pc' = IF ticker = "none" /\ cfg.SyncInterval <= 0 THEN "panic" ELSE "wait"
  /\ ticker' = IF ticker = "none" /\ cfg.SyncInterval > 0 THEN "idle" ELSE ticker

Fail(step) == Return("failed", step)

\* A ticker whose channel queues a second tick behind a pending one.
TickerAfterTickQueued(t) == IF t = "idle" THEN "pending" ELSE "pending2"

\* The channel of a time.Ticker holds one tick: a tick that finds it full
\* is dropped.
TickerAfterTick(t) == "pending"

\* Run receives from ticker.C.
TickerAfterReceive(t) == IF t = "pending2" THEN "pending" ELSE "idle"

\* A first cycle that resolves the job's schemas again and finds none.
RunFirstResolving ==
  /\ UNCHANGED <<processorIO, mainVars>>
  /\ pc = "run"
  /\ BeginCycle
  /\ processor' = NewDataProcessor(NilSchema, NilSchema, processor.transform)
  /\ UNCHANGED <<cfg, source, changes, tables, buffer, sourceData,
                 dataLoaded, offset, totalCount, batchSize, procIdx, ticker>>

RunFirst ==
  /\ UNCHANGED <<processorIO, mainVars>>
  /\ pc = "run"
  /\ BeginCycle
  /\ UNCHANGED <<cfg, source, changes, tables, processor, buffer, sourceData,
                 dataLoaded, offset, totalCount, batchSize, procIdx, ticker>>

\* A Run that starts a cycle for every tick, wherever the previous cycle is.
RunTickOverlapping ==
  /\ UNCHANGED <<processorIO, mainVars>>
  /\ pc \in {"wait", "create", "extract", "streaming", "preloaded", "swap",
             "cleanup", "procs"}
  /\ ticker = "pending"
  /\ ticker' = TickerAfterReceive(ticker)
  /\ BeginCycle
  /\ UNCHANGED <<cfg, source, changes, tables, processor, buffer, sourceData,
                 dataLoaded, offset, totalCount, batchSize, procIdx>>

RunTick ==
  /\ UNCHANGED <<processorIO, mainVars>>
  /\ pc = "wait"
  /\ cycles < MaxCycles
  /\ ticker \notin {"none", "idle"}
  /\ ticker' = TickerAfterReceive(ticker)
  /\ BeginCycle
  /\ UNCHANGED <<cfg, source, changes, tables, processor, buffer, sourceData,
                 dataLoaded, offset, totalCount, batchSize, procIdx>>

\* The ticker fires, between two cycles or while a cycle runs.
Tick ==
  /\ UNCHANGED <<processorIO, mainVars>>
  /\ ticker # "none"
  /\ pc # "panic"
  /\ cycles < MaxCycles \/ result.status = "running"
  /\ ticker' = TickerAfterTick(ticker)
  /\ UNCHANGED <<cfg, source, changes, tables, processor, buffer, sourceData,
                 dataLoaded, pc, offset, totalCount, batchSize, procIdx,
                 cycles, calls, result, preLive, cycleSrc, inserted, repeat>>

\* The source is modified between two cycles (here: after the tick that
\* starts the next one): its first row is deleted, or a new row is appended.
SourceChange ==
  /\ UNCHANGED <<processorIO, mainVars>>
  /\ pc = "wait"
  /\ ticker = "pending"
  /\ changes < MaxChanges
  /\ changes' = changes + 1
  /\ \/ /\ Len(source) > 0
        /\ source' = Tail(source)
     \/ /\ Len(source) < MaxRows
        /\ source' = Append(source, MaxRows + changes + 1)
  /\ UNCHANGED <<cfg, tables, processor, buffer, sourceData, dataLoaded, pc,
                 offset, totalCount, batchSize, procIdx, ticker, cycles, calls,
                 result, preLive, cycleSrc, inserted, repeat>>

\* CreateTempTable of either connector: DROP the temp name, CREATE it, Commit.
\* MariaDB's calls tx.Rollback() on the nil tx of a failed Begin, which panics.
\* A CreateTempTable without its DROP TABLE IF EXISTS: CREATE TABLE IF NOT
\* EXISTS alone keeps the rows of a temp table left from an earlier cycle.
CreateTempTableKeepingRows(t, temp, outcome) ==
  CASE outcome \in {"begin_err", "drop_err", "create_err"} -> t
    [] OTHER -> IF Exists(t, temp) THEN t ELSE CreateT(t, temp)

CreateTempTableTables(t, temp, outcome) ==
  CASE outcome \in {"begin_err", "drop_err"} -> t
    [] outcome = "create_err" -> DropT(t, temp)
    [] OTHER -> CreateT(DropT(t, temp), temp)

CreateTempTable ==
  /\ UNCHANGED <<processorIO, mainVars>>
  /\ pc = "create"
  /\ \E outcome \in {"begin_err", "drop_err", "create_err", "commit_err", "ok"} :
       /\ tables' = CreateTempTableTables(tables, TempTableName(cfg), outcome)
       /\ IF outcome = "ok"
          THEN /\ calls' = Append(calls, Call("CreateTempTable", "ok", 0, 0))
               /\ pc' = "extract"
               /\ UNCHANGED <<result, ticker>>
          ELSE IF outcome = "begin_err" /\ cfg.engine = "mariadb"
          THEN /\ calls' = Append(calls, Call("CreateTempTable", "panic", 0, 0))
               /\ pc' = "panic"
               /\ UNCHANGED <<result, ticker>>
          ELSE /\ calls' = Append(calls, Call("CreateTempTable", "err", 0, 0))
               /\ Fail("create")
  /\ UNCHANGED <<cfg, source, changes, processor, buffer, sourceData,
                 dataLoaded, offset, totalCount, batchSize, procIdx, cycles,
                 preLive, cycleSrc, inserted, repeat>>

\* -------------------------------------------------------------- processData
\* Where processData goes after its loop test: another iteration, or out of
\* the loop and on to syncTables' swap.
LoopPc(off, total, loop) == IF off < total THEN loop ELSE "swap"

\* A syncTables that logs the error of processData and goes on to the swap.
OnProcessDataErrorIgnored == "swap"

\* syncTables when processData returns an error: on to the drop of the temp
\* table and the return of the error, never to the swap.
OnProcessDataError == "dropfail"

\* An offset that advances one row too far after every batch.
NextOffsetSkipping(off, size) == off + size + 1

\* An offset that advances by one row less than the batch.
NextOffsetLagging(off, size) == off + size - 1

\* The offset of the next streaming request.
NextOffset(off, size) == off + size

\* "Для последней пачки": the batch size after a processed batch of n records.
AdaptBatchSize(size, n) == IF size > n THEN n ELSE size

GetPreloadedBatch(p, data, loaded, off, size) ==
  IF (~loaded) \/ off >= Len(data) THEN <<>>
  ELSE SelectSeq([i \in 1..(Min(off + size, Len(data)) - off) |->
                     processRecord(p, data[off + i])], NotNil)

\* What GetPreloadedBatch leaves in sourceData: without a source schema
\* processRecord hands the stored record itself to the transform, which
\* renames its keys in place.
PreloadedAfter(p, data, loaded, off, size) ==
  IF (~loaded) \/ off >= Len(data) \/ ~p.sourceSchema.isNil THEN data
  ELSE [i \in 1..Len(data) |->
          IF /\ i > off /\ i <= Min(off + size, Len(data))
             /\ NotNil(Transform(p.transform, data[i]))
          THEN Transform(p.transform, data[i]) ELSE data[i]]

\* processData's entry: the preloaded branch, or GetCount of the streaming one
\* (GetCount returns an error for a nil schema).
ProcessDataStart ==
  /\ UNCHANGED <<processorIO, mainVars>>
  /\ pc = "extract"
  /\ IF dataLoaded
     THEN /\ totalCount' = Len(sourceData)
          /\ batchSize' = cfg.BatchSize
          /\ offset' = 0
          /\ pc' = LoopPc(0, Len(sourceData), "preloaded")
          /\ UNCHANGED <<calls, result>>
     ELSE \E ok \in BOOLEAN :
            IF ok /\ ~processor.sourceSchema.isNil
            THEN /\ totalCount' = Len(source)
                 /\ batchSize' = cfg.BatchSize
                 /\ offset' = 0
                 /\ calls' = Append(calls, Call("GetCount", "ok", 0, Len(source)))
                 /\ pc' = LoopPc(0, Len(source), "streaming")
                 /\ UNCHANGED result
            ELSE /\ calls' = Append(calls, Call("GetCount", "err", 0, 0))
                 /\ result' = [result EXCEPT !.step = "count"]
                 /\ pc' = OnProcessDataError
                 /\ UNCHANGED <<totalCount, batchSize, offset>>
  /\ UNCHANGED <<cfg, source, changes, tables, processor, buffer, sourceData,
                 dataLoaded, procIdx, ticker, cycles, preLive, cycleSrc,
                 inserted, repeat>>

\* One iteration of the streaming loop: GetBatch, Process, GetBatch of the
\* processor, the batch-size adaptation, InsertBatch, the offset's advance.
StreamBatch ==
  /\ UNCHANGED <<processorIO, mainVars>>
  /\ pc = "streaming"
  /\ \E readOk \in BOOLEAN, insertOk \in BOOLEAN :
       LET batch == SourceGetBatch(source, offset, batchSize)
           filled == Process(processor, buffer, batch)
           processedBatch == GetBatchTaken(filled, batchSize)
           newSize == AdaptBatchSize(batchSize, Len(processedBatch))
           temp == TempTableName(cfg)
       IN  IF ~readOk \/ batchSize <= 0
           THEN /\ calls' = Append(calls, CallGetBatch("err", offset, 0, batchSize))
                /\ result' = [result EXCEPT !.step = "batch"]
                /\ pc' = OnProcessDataError
                /\ UNCHANGED <<tables, buffer, offset, batchSize, inserted>>
           ELSE IF Len(processedBatch) = 0
           THEN /\ calls' = Append(calls, CallGetBatch("ok", offset, Len(batch), batchSize))
                /\ buffer' = GetBatchRest(filled, batchSize)
                /\ pc' = "swap"
                /\ UNCHANGED <<tables, result, offset, batchSize, inserted>>
           ELSE IF insertOk /\ Exists(tables, temp)
           THEN /\ calls' = calls \o
                      <<CallGetBatch("ok", offset, Len(batch), batchSize),
                        CallInsertBatch("ok", offset, Len(processedBatch),
                                        GetTargetColumns(processor))>>
                /\ buffer' = GetBatchRest(filled, batchSize)
                /\ batchSize' = newSize
                /\ tables' = InsertBatch(tables, temp, processedBatch,
                                         GetTargetColumns(processor))
                /\ inserted' = inserted \o
                      BatchRows(processedBatch, GetTargetColumns(processor))
                /\ offset' = NextOffset(offset, newSize)
                /\ pc' = LoopPc(NextOffset(offset, newSize), totalCount, "streaming")
                /\ UNCHANGED result
           ELSE /\ calls' = calls \o
                      <<CallGetBatch("ok", offset, Len(batch), batchSize),
                        CallInsertBatch("err", offset, Len(processedBatch),
                                        GetTargetColumns(processor))>>
                /\ buffer' = GetBatchRest(filled, batchSize)
                /\ batchSize' = newSize
                /\ result' = [result EXCEPT !.step = "insert"]
                /\ pc' = OnProcessDataError
                /\ UNCHANGED <<tables, offset, inserted>>
  /\ UNCHANGED <<cfg, source, changes, processor, sourceData, dataLoaded,
                 totalCount, procIdx, ticker, cycles, preLive, cycleSrc, repeat>>

\* One iteration of the preloaded loop: GetPreloadedBatch and InsertBatch.
\* With a negative batch size the slice sourceData[offset:end] has its end
\* below its start, and the slice expression panics.
PreloadedBatch ==
  /\ UNCHANGED <<processorIO, mainVars>>
  /\ pc = "preloaded"
  /\ \E insertOk \in BOOLEAN :
       LET processedBatch ==
             GetPreloadedBatch(processor, sourceData, dataLoaded, offset, batchSize)
           temp == TempTableName(cfg)
       IN  /\ sourceData' =
                PreloadedAfter(processor, sourceData, dataLoaded, offset, batchSize)
           /\ IF Len(processedBatch) = 0
              THEN /\ pc' = IF batchSize < 0 THEN "panic" ELSE "swap"
                   /\ UNCHANGED <<tables, calls, result, offset, inserted>>
              ELSE IF insertOk /\ Exists(tables, temp)
              THEN /\ calls' = Append(calls,
                        CallInsertBatch("ok", offset, Len(processedBatch),
                                        GetTargetColumns(processor)))
                   /\ tables' = InsertBatch(tables, temp, processedBatch,
                                            GetTargetColumns(processor))
                   /\ inserted' = inserted \o
                        BatchRows(processedBatch, GetTargetColumns(processor))
                   /\ offset' = offset + batchSize
                   /\ pc' = LoopPc(offset + batchSize, totalCount, "preloaded")
                   /\ UNCHANGED result
              ELSE /\ calls' = Append(calls,
                        CallInsertBatch("err", offset, Len(processedBatch),
                                        GetTargetColumns(processor)))
                   /\ result' = [result EXCEPT !.step = "insert"]
                   /\ pc' = OnProcessDataError
                   /\ UNCHANGED <<tables, offset, inserted>>
  /\ UNCHANGED <<cfg, source, changes, processor, buffer, dataLoaded,
                 totalCount, batchSize, procIdx, ticker, cycles, preLive,
                 cycleSrc, repeat>>

\* DropTable of either connector: DROP TABLE IF EXISTS, or an error.
DropTable(t, name, ok) == IF ok THEN DropT(t, name) ELSE t

\* syncTables after processData returned an error: the temp table is dropped
\* (a drop error is only logged) and the cycle returns the error.
DropAfterError ==
  /\ UNCHANGED <<processorIO, mainVars>>
  /\ pc = OnProcessDataError
  /\ \E ok \in BOOLEAN :
       /\ tables' = DropTable(tables, TempTableName(cfg), ok)
       /\ calls' = Append(calls,
            Call("DropTable", IF ok THEN "ok" ELSE "err", 0, 0))
  /\ Fail(result.step)
  /\ UNCHANGED <<cfg, source, changes, processor, buffer, sourceData,
                 dataLoaded, offset, totalCount, batchSize, procIdx, cycles,
                 preLive, cycleSrc, inserted, repeat>>

\* ----------------------------------------------------------------- the swap
\* A syncTables that only logs the error of SwapTables and goes on to drop
\* the temp table and to run the procedures.
OnSwapErrorLogged ==
  /\ pc' = "cleanup"
  /\ UNCHANGED <<result, ticker>>

\* syncTables when SwapTables returned an error: it returns the error at
\* once, before the temp-table cleanup and the procedures.
OnSwapError == Fail("swap")

SetLast(cs, res) == [cs EXCEPT ![Len(cs)].res = res]

\* MariaDB: RENAME TABLE original TO backup, temp TO original is one
\* statement; it is applied left to right and fails as a whole.
MariaRenameOK(t, originalTable, tempTable, backupTable) ==
  /\ RenameOK(t, originalTable, backupTable)
  /\ RenameOK(RenameT(t, originalTable, backupTable), tempTable, originalTable)

\* A RENAME TABLE that moves the live table aside and back again and leaves
\* the temp table where it is.
MariaRenameBackupBack(t, originalTable, tempTable, backupTable) ==
  RenameT(RenameT(t, originalTable, backupTable), backupTable, originalTable)

MariaRename(t, originalTable, tempTable, backupTable) ==
  RenameT(RenameT(t, originalTable, backupTable), tempTable, originalTable)

\* MariaDBConnector.SwapTables up to its rename: DropTable(backup) with the
\* error ignored, Begin (tx.Rollback() on the nil tx of a failed Begin
\* panics), DROP TABLE IF EXISTS backup.
SwapMariaDropBackup ==
  /\ UNCHANGED <<processorIO, mainVars>>
  /\ pc = "swap"
  /\ cfg.engine = "mariadb"
  /\ \E first \in BOOLEAN, outcome \in {"begin_err", "drop_err", "ok"} :
       LET backupTable == MariaBackupName(TargetTable)
           t1 == DropTable(tables, backupTable, first)
       IN  CASE outcome = "begin_err" ->
                  /\ tables' = t1
                  /\ calls' = Append(calls, Call("SwapTables", "panic", 0, 0))
                  /\ pc' = "panic"
                  /\ UNCHANGED <<result, ticker>>
             [] outcome = "drop_err" ->
                  /\ tables' = t1
                  /\ calls' = Append(calls, Call("SwapTables", "err", 0, 0))
                  /\ OnSwapError
             [] outcome = "ok" ->
                  /\ tables' = DropT(t1, backupTable)
                  /\ calls' = Append(calls, Call("SwapTables", "begun", 0, 0))
                  /\ pc' = "swap_rename"
                  /\ UNCHANGED <<result, ticker>>
  /\ UNCHANGED <<cfg, source, changes, processor, buffer, sourceData,
                 dataLoaded, offset, totalCount, batchSize, procIdx, cycles,
                 preLive, cycleSrc, inserted, repeat>>

\* MariaDBConnector.SwapTables' RENAME TABLE and Commit.
SwapMariaRename ==
  /\ UNCHANGED <<processorIO, mainVars>>
  /\ pc = "swap_rename"
  /\ \E outcome \in {"rename_err", "commit_err", "ok"} :
       LET backupTable == MariaBackupName(TargetTable)
           temp == TempTableName(cfg)
       IN  IF outcome = "rename_err"
              \/ ~MariaRenameOK(tables, TargetTable, temp, backupTable)
           THEN /\ calls' = SetLast(calls, "err")
                /\ OnSwapError
                /\ UNCHANGED tables
           ELSE /\ tables' = MariaRename(tables, TargetTable, temp, backupTable)
                /\ IF outcome = "commit_err"
                   THEN /\ calls' = SetLast(calls, "err")
                        /\ OnSwapError
                   ELSE /\ calls' = SetLast(calls, "ok")
                        /\ pc' = "cleanup"
                        /\ UNCHANGED <<result, ticker>>
  /\ UNCHANGED <<cfg, source, changes, processor, buffer, sourceData,
                 dataLoaded, offset, totalCount, batchSize, procIdx, cycles,
                 preLive, cycleSrc, inserted, repeat>>

\* OracleConnector.SwapTables: three ALTER TABLE ... RENAME TO statements,
\* each applied when executed.  One rename of the sequence, or its failure.
OracleRename(from, to, next, outcomes) ==
  \E outcome \in outcomes :
    IF outcome \in {"begin_err", "err"} \/ ~RenameOK(tables, from, to)
    THEN /\ calls' = IF next = "swap_o2"
                     THEN Append(calls, Call("SwapTables", "err", 0, 0))
                     ELSE SetLast(calls, "err")
         /\ OnSwapError
         /\ UNCHANGED tables
    ELSE /\ tables' = RenameT(tables, from, to)
         /\ IF outcome = "commit_err"
            THEN /\ calls' = SetLast(calls, "err")
                 /\ OnSwapError
            ELSE /\ calls' = IF next = "swap_o2"
                             THEN Append(calls, Call("SwapTables", "begun", 0, 0))
                             ELSE SetLast(calls, IF next = "cleanup" THEN "ok"
                                                 ELSE "begun")
                 /\ pc' = next
                 /\ UNCHANGED <<result, ticker>>

SwapOracleRename1 ==
  /\ UNCHANGED <<processorIO, mainVars>>
  /\ pc = "swap"
  /\ cfg.engine = "oracle"
  /\ OracleRename(TargetTable, OracleBackupName(TargetTable, cycles), "swap_o2",
                  {"begin_err", "err", "ok"})
  /\ UNCHANGED <<cfg, source, changes, processor, buffer, sourceData,
                 dataLoaded, offset, totalCount, batchSize, procIdx, cycles,
                 preLive, cycleSrc, inserted, repeat>>

SwapOracleRename2 ==
  /\ UNCHANGED <<processorIO, mainVars>>
  /\ pc = "swap_o2"
  /\ OracleRename(TempTableName(cfg), TargetTable, "swap_o3", {"err", "ok"})
  /\ UNCHANGED <<cfg, source, changes, processor, buffer, sourceData,
                 dataLoaded, offset, totalCount, batchSize, procIdx, cycles,
                 preLive, cycleSrc, inserted, repeat>>

SwapOracleRename3 ==
  /\ UNCHANGED <<processorIO, mainVars>>
  /\ pc = "swap_o3"
  /\ OracleRename(OracleBackupName(TargetTable, cycles), TempTableName(cfg),
                  "cleanup", {"err", "commit_err", "ok"})
  /\ UNCHANGED <<cfg, source, changes, processor, buffer, sourceData,
                 dataLoaded, offset, totalCount, batchSize, procIdx, cycles,
                 preLive, cycleSrc, inserted, repeat>>

\* ---------------------------------------------------- cleanup and procedures
\* syncTables step 4: DropTable(tempTableName); an error is only logged.
Cleanup ==
  /\ UNCHANGED <<processorIO, mainVars>>
  /\ pc = "cleanup"
  /\ \E ok \in BOOLEAN :
       /\ tables' = DropTable(tables, TempTableName(cfg), ok)
       /\ calls' = Append(calls,
            Call("DropTable", IF ok THEN "ok" ELSE "err", 0, 0))
  /\ IF Len(PostProcedure) > 0
     THEN /\ procIdx' = 1
          /\ pc' = "procs"
          /\ UNCHANGED <<result, ticker>>
     ELSE /\ Return("ok", "")
          /\ UNCHANGED procIdx
  /\ UNCHANGED <<cfg, source, changes, processor, buffer, sourceData,
                 dataLoaded, offset, totalCount, batchSize, cycles, preLive,
                 cycleSrc, inserted, repeat>>

\* ExecuteProcedure of the target connector.  MariaDB issues CALL name(?, ..)
\* and returns its error; Oracle's returns 0, nil and issues no statement.
ExecuteProcedure(engine, ok) ==
  IF engine = "oracle" THEN "noop" ELSE IF ok THEN "ok" ELSE "err"

\* syncTables step 5: ExecuteProcedure for PostProcedure[procIdx]; an error
\* is only logged.
PostProcedures ==
  /\ UNCHANGED <<processorIO, mainVars>>
  /\ pc = "procs"
  /\ \E ok \in BOOLEAN :
       calls' = Append(calls,
          Call("ExecuteProcedure", ExecuteProcedure(cfg.engine, ok), procIdx, 0))
  /\ IF procIdx < Len(PostProcedure)
     THEN /\ procIdx' = procIdx + 1
          /\ UNCHANGED <<pc, result, ticker>>
     ELSE /\ Return("ok", "")
          /\ UNCHANGED procIdx
  /\ UNCHANGED <<cfg, source, changes, tables, processor, buffer, sourceData,
                 dataLoaded, offset, totalCount, batchSize, cycles, preLive,
                 cycleSrc, inserted, repeat>>

\* -------------------------------------------------------------------- Next
Next ==
  \/ NewSyncService
  \/ RunFirst
  \/ RunTick
  \/ Tick
  \/ SourceChange
  \/ CreateTempTable
  \/ ProcessDataStart
  \/ StreamBatch
  \/ PreloadedBatch
  \/ DropAfterError
  \/ SwapMariaDropBackup
  \/ SwapMariaRename
  \/ SwapOracleRename1
  \/ SwapOracleRename2
  \/ SwapOracleRename3
  \/ Cleanup
  \/ PostProcedures

Spec == Init /\ [][Next]_vars

\* The jobs whose configuration file sets the temp-table suffix and a positive
\* interval.
InitConfigured ==
  /\ Init
  /\ cfg.TempTableSuffix # ""
  /\ cfg.SyncInterval > 0

SpecConfigured == InitConfigured /\ [][Next]_vars

\* ------------------------------- processData over any source connector
\* The configured jobs with any batch size, zero and negative included.
LoopConfigs ==
  {[c EXCEPT !.BatchSize = b] :
     c \in {k \in SyncConfigs : /\ k.TempTableSuffix # ""
                                /\ k.SyncInterval > 0
                                /\ k.TransformFunction = ""},
     b \in (-1)..MaxBatch}

\* syncTables has created the temp table and calls processData.
InitProcessData ==
  /\ cfg \in LoopConfigs
  /\ source = <<>>
  /\ changes = 0
  /\ tables = [n \in {TempTableName(cfg)} |-> <<>>]
  /\ processor = NewDataProcessor(IF cfg.srcKind = "table"
                                   THEN IntrospectedSourceSchema ELSE NilSchema,
                                   ConfiguredTargetSchema, "")
  /\ buffer = <<>>
  /\ \E n \in 0..MaxRows :
       /\ sourceData = IF cfg.srcKind = "query"
                        THEN SourceRecords([i \in 1..n |-> i]) ELSE <<>>
       /\ dataLoaded = (cfg.srcKind = "query" /\ n > 0)
  /\ pc = "extract"
  /\ offset = 0
  /\ totalCount = 0
  /\ batchSize = 0
  /\ procIdx = 0
  /\ ticker = "none"
  /\ cycles = 1
  /\ calls = <<>>
  /\ result = [status |-> "running", step |-> ""]
  /\ preLive = Absent
  /\ cycleSrc = <<>>
  /\ inserted = <<>>
  /\ repeat = FALSE
  /\ batchIn = <<>>
  /\ drained = <<>>
  /\ MainNotStarted

\* processData's entry when GetCount may return any count, or an error.
ProcessDataCount ==
  /\ UNCHANGED <<processorIO, mainVars>>
  /\ pc = "extract"
  /\ IF dataLoaded
     THEN /\ totalCount' = Len(sourceData)
          /\ batchSize' = cfg.BatchSize
          /\ offset' = 0
          /\ pc' = LoopPc(0, Len(sourceData), "preloaded")
          /\ UNCHANGED <<calls, result>>
     ELSE \E count \in (-2)..MaxRows :
            IF count >= -1
            THEN /\ totalCount' = count
                 /\ batchSize' = cfg.BatchSize
                 /\ offset' = 0
                 /\ calls' = Append(calls, Call("GetCount", "ok", 0, count))
                 /\ pc' = LoopPc(0, count, "streaming")
                 /\ UNCHANGED result
            ELSE /\ calls' = Append(calls, Call("GetCount", "err", 0, 0))
                 /\ result' = [result EXCEPT !.step = "count"]
                 /\ pc' = OnProcessDataError
                 /\ UNCHANGED <<totalCount, batchSize, offset>>
  /\ UNCHANGED <<cfg, source, changes, tables, processor, buffer, sourceData,
                 dataLoaded, procIdx, ticker, cycles, preLive, cycleSrc,
                 inserted, repeat>>

\* One iteration of the streaming loop when the source's GetBatch may return
\* an error or a batch of any length, whatever the size asked for.  With a
\* negative batch size the slice buffer[:size] of DataProcessor.GetBatch
\* panics.
StreamBatchAny ==
  /\ UNCHANGED <<processorIO, mainVars>>
  /\ pc = "streaming"
  /\ \E length \in (-1)..(MaxBatch + 1), insertOk \in BOOLEAN :
       LET batch == SourceRecords([i \in 1..length |-> offset + i])
           filled == Process(processor, buffer, batch)
           processedBatch == GetBatchTaken(filled, batchSize)
           newSize == AdaptBatchSize(batchSize, Len(processedBatch))
           temp == TempTableName(cfg)
       IN  IF length < 0
           THEN /\ calls' = Append(calls, CallGetBatch("err", offset, 0, batchSize))
                /\ result' = [result EXCEPT !.step = "batch"]
                /\ pc' = OnProcessDataError
                /\ UNCHANGED <<tables, buffer, offset, batchSize, inserted>>
           ELSE IF batchSize < 0
           THEN /\ calls' = Append(calls, CallGetBatch("ok", offset, length, batchSize))
                /\ buffer' = filled
                /\ pc' = "panic"
                /\ UNCHANGED <<tables, result, offset, batchSize, inserted>>
           ELSE IF Len(processedBatch) = 0
           THEN /\ calls' = Append(calls, CallGetBatch("ok", offset, length, batchSize))
                /\ buffer' = GetBatchRest(filled, batchSize)
                /\ pc' = "swap"
                /\ UNCHANGED <<tables, result, offset, batchSize, inserted>>
           ELSE IF insertOk
           THEN /\ calls' = calls \o
                      <<CallGetBatch("ok", offset, length, batchSize),
                        CallInsertBatch("ok", offset, Len(processedBatch),
                                        GetTargetColumns(processor))>>
                /\ buffer' = GetBatchRest(filled, batchSize)
                /\ batchSize' = newSize
                /\ tables' = InsertBatch(tables, temp, processedBatch,
                                         GetTargetColumns(processor))
                /\ inserted' = inserted \o
                      BatchRows(processedBatch, GetTargetColumns(processor))
                /\ offset' = NextOffset(offset, newSize)
                /\ pc' = LoopPc(NextOffset(offset, newSize), totalCount, "streaming")
                /\ UNCHANGED result
           ELSE /\ calls' = calls \o
                      <<CallGetBatch("ok", offset, length, batchSize),
                        CallInsertBatch("err", offset, Len(processedBatch),
                                        GetTargetColumns(processor))>>
                /\ buffer' = GetBatchRest(filled, batchSize)
                /\ result' = [result EXCEPT !.step = "insert"]
                /\ pc' = OnProcessDataError
                /\ UNCHANGED <<tables, offset, batchSize, inserted>>
  /\ UNCHANGED <<cfg, source, changes, processor, sourceData, dataLoaded,
                 totalCount, procIdx, ticker, cycles, preLive, cycleSrc, repeat>>

NextProcessData == ProcessDataCount \/ StreamBatchAny \/ PreloadedBatch

SpecProcessData == InitProcessData /\ [][NextProcessData]_vars

\* ------------------------------------------ schema resolution by endpoint
\* The source or target of a sync entry: a table or a query, with or without
\* an explicit column list.
Endpoints ==
  {e \in [Table : {"", TargetTable}, Query : {"", "q"},
          Columns : {<<>>, <<ColumnInfo(tac, FALSE)>>,
                     <<ColumnInfo(tac, FALSE), ColumnInfo(vendorName, FALSE)>>}] :
     (e.Table = "") # (e.Query = "")}

\* ExecuteSelectWithSchema for an endpoint: the columns of its table, or the
\* columns its query selects.
ExecuteSelectWithSchema(e) ==
  IF e.Table # "" THEN IntrospectedSourceSchema
  ELSE TableSchema(<<ColumnInfo(TAC, FALSE)>>)

\* NewSyncService's source schema: the table's, or none for a query, whose
\* rows are fetched instead.  cfg.Source.Columns is not read.
ResolveSourceSchema(e) ==
  IF e.Table # "" THEN ExecuteSelectWithSchema(e) ELSE NilSchema

\* NewSyncService's target schema: for a table the configured columns,
\* however many; for a query its introspected shape.
ResolveTargetSchema(e) ==
  IF e.Table # "" THEN TableSchema(e.Columns)
  ELSE IF e.Query # "" THEN ExecuteSelectWithSchema(e)
  ELSE NilSchema

InitResolve ==
  /\ cfg \in [engine : Engines, Source : Endpoints, Target : Endpoints]
  /\ source \in {<<>>, <<1>>}
  /\ changes = 0
  /\ tables = [n \in {} |-> <<>>]
  /\ processor = NewDataProcessor(NilSchema, NilSchema, "")
  /\ buffer = <<>>
  /\ sourceData = <<>>
  /\ dataLoaded = FALSE
  /\ pc = "new"
  /\ offset = 0
  /\ totalCount = 0
  /\ batchSize = 0
  /\ procIdx = 0
  /\ ticker = "none"
  /\ cycles = 0
  /\ calls = <<>>
  /\ result = [status |-> "none", step |-> ""]
  /\ preLive = Absent
  /\ cycleSrc = <<>>
  /\ inserted = <<>>
  /\ repeat = FALSE
  /\ batchIn = <<>>
  /\ drained = <<>>
  /\ MainNotStarted

\* NewSyncService on a sync entry given by its endpoints: an introspection
\* that fails returns the error; a failed fetch of the source query's rows is
\* logged and skipped.
NewSyncServiceResolve ==
  /\ pc = "new"
  /\ \E srcOk \in BOOLEAN, tgtOk \in BOOLEAN :
       IF \/ cfg.Source.Table # "" /\ ~srcOk
          \/ cfg.Target.Table = "" /\ cfg.Target.Query # "" /\ ~tgtOk
       THEN /\ pc' = "notstarted"
            /\ UNCHANGED <<processor, sourceData, dataLoaded>>
       ELSE /\ processor' = NewDataProcessor(ResolveSourceSchema(cfg.Source),
                                             ResolveTargetSchema(cfg.Target), "")
            /\ sourceData' = IF cfg.Source.Table = "" /\ srcOk
                              THEN SourceRecords(source) ELSE <<>>
            /\ dataLoaded' = (cfg.Source.Table = "" /\ srcOk /\ Len(source) > 0)
            /\ pc' = "run"
  /\ UNCHANGED <<cfg, source, changes, tables, buffer, offset, totalCount,
                 batchSize, procIdx, ticker, cycles, calls, result, preLive,
                 cycleSrc, inserted, repeat, processorIO, mainVars>>

SpecResolve == InitResolve /\ [][NewSyncServiceResolve]_vars

\* ------------------------------------------- a transform that drops records
\* The configured jobs, of either source kind, with a transform function
\* that returns nil for some records.
DroppingConfigs ==
  {[c EXCEPT !.TransformFunction = "transformDropping"] :
     c \in {k \in SyncConfigs : /\ k.TempTableSuffix # ""
                                /\ k.SyncInterval > 0
                                /\ k.TransformFunction = ""}}

InitDropping ==
  /\ cfg \in DroppingConfigs
  /\ source \in {[i \in 1..n |-> i] : n \in 0..MaxRows}
  /\ changes = 0
  /\ tables \in {[n \in {TargetTable} |-> <<OldRow>>], [n \in {} |-> <<>>]}
  /\ processor = NewDataProcessor(NilSchema, NilSchema, "")
  /\ buffer = <<>>
  /\ sourceData = <<>>
  /\ dataLoaded = FALSE
  /\ pc = "new"
  /\ offset = 0
  /\ totalCount = 0
  /\ batchSize = 0
  /\ procIdx = 0
  /\ ticker = "none"
  /\ cycles = 0
  /\ calls = <<>>
  /\ result = [status |-> "none", step |-> ""]
  /\ preLive = Absent
  /\ cycleSrc = <<>>
  /\ inserted = <<>>
  /\ repeat = FALSE
  /\ batchIn = <<>>
  /\ drained = <<>>
  /\ MainNotStarted

SpecDropping == InitDropping /\ [][Next]_vars

\* ------------------------------------- a source that is written meanwhile
\* Another client of the source database deletes a row while the job is in
\* its streaming loop.
SourceDelete ==
  /\ UNCHANGED <<processorIO, mainVars>>
  /\ pc = "streaming"
  /\ changes < MaxChanges
  /\ Len(source) > 0
  /\ changes' = changes + 1
  /\ source' = Tail(source)
  /\ UNCHANGED <<cfg, tables, processor, buffer, sourceData, dataLoaded, pc,
                 offset, totalCount, batchSize, procIdx, ticker, cycles, calls,
                 result, preLive, cycleSrc, inserted, repeat>>

NextLiveSource == Next \/ SourceDelete

SpecLiveSource == InitConfigured /\ [][NextLiveSource]_vars

\* --------------------------------------------- a data processor on its own
MaxBuffer == 2

\* The columns of cols whose index is in S, in the order of cols.
RECURSIVE Pick(_, _, _)
Pick(cols, S, n) ==
  IF n = 0 THEN <<>>
  ELSE IF n \in S THEN Append(Pick(cols, S, n - 1), cols[n])
       ELSE Pick(cols, S, n - 1)

SchemasOver(cols) ==
  {NilSchema} \cup
  {TableSchema(Pick(cols, S, Len(cols))) : S \in SUBSET (1..Len(cols))}

\* Target columns for the processor: the configured ones after a second
\* spelling of the vendor name column.
ProcessorTargetColumns ==
  <<ColumnInfo(vendor_name, FALSE)>> \o ConfiguredTargetSchema.Columns

\* Records holding a value for some of the source columns.
ProcessorRecords ==
  {[c \in K |-> SourceRecord(1)[c]] :
     K \in SUBSET {SourceColumns[j] : j \in 1..Len(SourceColumns)}} \ {EmptyRecord}

ProcessorBatches ==
  UNION {[1..n -> ProcessorRecords] : n \in 1..MaxBatch}

InitProcessor ==
  /\ cfg \in {c \in SyncConfigs :
                /\ c.engine = "mariadb" /\ c.srcKind = "table"
                /\ c.BatchSize = 1 /\ c.TempTableSuffix = "_temp"
                /\ c.SyncInterval = 5}
  /\ source = <<>>
  /\ changes = 0
  /\ tables = [n \in {} |-> <<>>]
  /\ processor \in
       {NewDataProcessor(src, tgt, "") :
          src \in SchemasOver(IntrospectedSourceSchema.Columns),
          tgt \in SchemasOver(ProcessorTargetColumns)}
  /\ buffer = <<>>
  /\ sourceData = <<>>
  /\ dataLoaded = FALSE
  /\ pc = "processor"
  /\ offset = 0
  /\ totalCount = 0
  /\ batchSize = 0
  /\ procIdx = 0
  /\ ticker = "none"
  /\ cycles = 0
  /\ calls = <<>>
  /\ result = [status |-> "none", step |-> ""]
  /\ preLive = Absent
  /\ cycleSrc = <<>>
  /\ inserted = <<>>
  /\ repeat = FALSE
  /\ batchIn = <<>>
  /\ drained = <<>>
  /\ MainNotStarted

jobVarsButTables == <<cfg, source, changes, processor, sourceData, dataLoaded,
                      pc, offset, totalCount, batchSize, procIdx, ticker,
                      cycles, calls, result, preLive, cycleSrc, inserted,
                      repeat>>

jobVars == <<cfg, source, changes, tables, processor, sourceData, dataLoaded,
             pc, offset, totalCount, batchSize, procIdx, ticker, cycles, calls,
             result, preLive, cycleSrc, inserted, repeat>>

\* DataProcessor.Process on a batch of source records.
ProcessorProcess ==
  /\ pc = "processor"
  /\ \E batch \in ProcessorBatches :
       /\ Len(batchIn) + Len(batch) <= MaxBuffer
       /\ buffer' = Process(processor, buffer, batch)
       /\ batchIn' = batchIn \o batch
  /\ UNCHANGED <<jobVars, mainVars, drained>>

\* DataProcessor.GetBatch(size).
ProcessorGetBatch ==
  /\ pc = "processor"
  /\ buffer # <<>>
  /\ \E size \in 1..MaxBatch :
       /\ drained' = drained \o GetBatchTaken(buffer, size)
       /\ buffer' = GetBatchRest(buffer, size)
  /\ UNCHANGED <<jobVars, mainVars, batchIn>>

NextProcessor == ProcessorProcess \/ ProcessorGetBatch

SpecProcessor == InitProcessor /\ [][NextProcessor]_vars


\* ------------------------------------------------- main and its goroutines
\* l.Fatalf logs and ends the process.
Fatalf == "exited"

\* A job goroutine or main is running.
ProcessRuns == mainPc \in {"serving", "waiting"}

InitMain ==
  /\ cfg \in {c \in SyncConfigs :
                /\ c.engine = "mariadb" /\ c.srcKind = "table"
                /\ c.BatchSize = 1 /\ c.TempTableSuffix = "_temp"
                /\ c.SyncInterval = 5}
  /\ source = <<>>
  /\ changes = 0
  /\ tables = [n \in {} |-> <<>>]
  /\ processor = NewDataProcessor(NilSchema, NilSchema, "")
  /\ buffer = <<>>
  /\ sourceData = <<>>
  /\ dataLoaded = FALSE
  /\ pc = "main"
  /\ offset = 0
  /\ totalCount = 0
  /\ batchSize = 0
  /\ procIdx = 0
  /\ ticker = "none"
  /\ cycles = 0
  /\ calls = <<>>
  /\ result = [status |-> "none", step |-> ""]
  /\ preLive = Absent
  /\ cycleSrc = <<>>
  /\ inserted = <<>>
  /\ repeat = FALSE
  /\ batchIn = <<>>
  /\ drained = <<>>
  /\ MainNotStarted

jobAndProcessorVars == <<jobVars, buffer, batchIn, drained>>

\* main connects and pings the next configured database; a failure of
\* either is reported with l.Fatalf.
MainConnect ==
  /\ mainPc = "connect"
  /\ LET i == CHOOSE k \in 1..Len(Databases) :
                /\ connections[Databases[k]] = "none"
                /\ \A h \in 1..(k - 1) : connections[Databases[h]] # "none"
     IN  \E ok \in BOOLEAN :
           /\ connections' =
                [connections EXCEPT ![Databases[i]] = IF ok THEN "ok" ELSE "failed"]
           /\ mainPc' = IF ~ok THEN Fatalf
                        ELSE IF i = Len(Databases) THEN "start" ELSE "connect"
  /\ UNCHANGED <<jobAndProcessorVars, err, tasks, quit>>

\* main looks up the connections of every sync entry and starts one
\* goroutine per table of the entries that have a tables list.  The pairs in
\* legacy are configured in the single source/target form, which Validate
\* accepts for an entry without tables: the loop body skips such an entry.
MainStartJobs ==
  /\ mainPc = "start"
  /\ IF \A j \in Jobs : /\ connections[SourceDB(j)] = "ok"
                        /\ connections[TargetDB(j)] = "ok"
     THEN /\ \E legacy \in SUBSET Jobs :
               tasks' = [j \in Jobs |->
                           [NoTask EXCEPT !.pc = IF j \in legacy
                                                 THEN "unlaunched"
                                                 ELSE "create"]]
          /\ mainPc' = "serving"
     ELSE /\ mainPc' = Fatalf
          /\ UNCHANGED tasks
  /\ UNCHANGED <<jobAndProcessorVars, connections, err, quit>>

\* main receives SIGINT or SIGTERM from the quit channel.
Signal ==
  /\ mainPc = "serving"
  /\ quit' = TRUE
  /\ mainPc' = "waiting"
  /\ UNCHANGED <<jobAndProcessorVars, connections, err, tasks>>

\* wg.Wait() returned and done is closed: every goroutine has returned.
MainAllDone ==
  /\ mainPc = "waiting"
  /\ \A j \in Jobs : tasks[j].pc \in {"returned", "unlaunched"}
  /\ mainPc' = "complete"
  /\ UNCHANGED <<jobAndProcessorVars, connections, err, tasks, quit>>

\* time.After(30 * time.Second) fires.
MainTimeout ==
  /\ mainPc = "waiting"
  /\ mainPc' = "complete"
  /\ UNCHANGED <<jobAndProcessorVars, connections, err, tasks, quit>>

\* The goroutine of job j: syncService, err = NewSyncService(...), where
\* syncService is the goroutine's own variable and err is main's.  What the
\* later test err != nil sees is decided by the type word of err, which is
\* written whole, so the writes and reads of err interleave as atomic ones.
TaskCreate(j) ==
  /\ ProcessRuns
  /\ tasks[j].pc = "create"
  /\ \E ok \in BOOLEAN :
       /\ tasks' = [tasks EXCEPT ![j] =
                      [pc |-> "check",
                       syncService |-> IF ok THEN "created" ELSE "nil",
                       cycles |-> 0]]
       /\ err' = IF ok THEN "nil" ELSE "error"
  /\ UNCHANGED <<jobAndProcessorVars, mainPc, connections, quit>>

\* The goroutine of job j: if err != nil { return }; syncService.Run(), which
\* starts the first cycle at once.  Run on a nil *SyncService panics in
\* syncTables, and a panic of a goroutine ends the process.
TaskCheck(j) ==
  /\ ProcessRuns
  /\ tasks[j].pc = "check"
  /\ IF err # "nil"
     THEN /\ tasks' = [tasks EXCEPT ![j].pc = "returned"]
          /\ UNCHANGED mainPc
     ELSE IF tasks[j].syncService = "nil"
     THEN /\ tasks' = [tasks EXCEPT ![j].pc = "dead"]
          /\ mainPc' = "crashed"
     ELSE /\ tasks' = [tasks EXCEPT ![j].pc = "cycle", ![j].cycles = 1]
          /\ UNCHANGED mainPc
  /\ UNCHANGED <<jobAndProcessorVars, connections, err, quit>>

\* A cycle of job j returns, with or without an error, or panics (the
\* tx.Rollback() on a nil transaction, or time.NewTicker on no interval).
TaskCycleEnd(j) ==
  /\ ProcessRuns
  /\ tasks[j].pc = "cycle"
  /\ \E outcome \in {"ok", "failed", "panic"} :
       IF outcome = "panic"
       THEN /\ tasks' = [tasks EXCEPT ![j].pc = "dead"]
            /\ mainPc' = "crashed"
       ELSE /\ tasks' = [tasks EXCEPT ![j].pc = "wait"]
            /\ UNCHANGED mainPc
  /\ UNCHANGED <<jobAndProcessorVars, connections, err, quit>>

\* Run of job j receives a tick and starts the next cycle.
TaskTick(j) ==
  /\ ProcessRuns
  /\ tasks[j].pc = "wait"
  /\ tasks[j].cycles < MaxCycles
  /\ tasks' = [tasks EXCEPT ![j].pc = "cycle", ![j].cycles = @ + 1]
  /\ UNCHANGED <<jobAndProcessorVars, mainPc, connections, err, quit>>

NextMain ==
  \/ MainConnect
  \/ MainStartJobs
  \/ Signal
  \/ MainAllDone
  \/ MainTimeout
  \/ \E j \in Jobs : TaskCreate(j)
  \/ \E j \in Jobs : TaskCheck(j)
  \/ \E j \in Jobs : TaskCycleEnd(j)
  \/ \E j \in Jobs : TaskTick(j)

SpecMain == InitMain /\ [][NextMain]_vars

\* The timer of the grace period fires, and a closed done channel is seen.
SpecMainLive ==
  InitMain /\ [][NextMain]_vars /\ WF_vars(MainTimeout) /\ WF_vars(MainAllDone)

\* ------------------------------ tasks that share one data processor
\* A Lock that returns whether the mutex is held or not.
MutexIgnored(mu) == TRUE

\* p.mu.Lock() returns once the mutex is unlocked.
MutexFree(mu) == mu = 0

\* A task that is not inside a call of the processor.
IdleCaller == [pc |-> "idle", op |-> "", records |-> <<>>, size |-> 0]

\* Tasks that call Process and GetBatch on one processor, in any order and
\* at any time.
InitConcurrent ==
  /\ cfg \in {c \in SyncConfigs :
                /\ c.engine = "mariadb" /\ c.srcKind = "table"
                /\ c.BatchSize = 1 /\ c.TempTableSuffix = "_temp"
                /\ c.SyncInterval = 5}
  /\ source = <<>>
  /\ changes = 0
  /\ tasks = [j \in Jobs |-> IdleCaller]
  /\ tables = [n \in {} |-> <<>>]
  /\ processor = NewDataProcessor(IntrospectedSourceSchema,
                                   ConfiguredTargetSchema, "")
  /\ buffer = <<>>
  /\ sourceData = <<>>
  /\ dataLoaded = FALSE
  /\ pc = "concurrent"
  /\ offset = 0
  /\ totalCount = 0
  /\ batchSize = 0
  /\ procIdx = 0
  /\ ticker = "none"
  /\ cycles = 0
  /\ calls = <<>>
  /\ result = [status |-> "none", step |-> ""]
  /\ preLive = Absent
  /\ cycleSrc = <<>>
  /\ inserted = <<>>
  /\ repeat = FALSE
  /\ batchIn = <<>>
  /\ drained = <<>>
  /\ mainPc = "serving"
  /\ connections = [d \in {Databases[i] : i \in 1..Len(Databases)} |-> "ok"]
  /\ err = "nil"
  /\ quit = FALSE

processorFixed == <<cfg, source, changes, tables, sourceData, dataLoaded, pc,
                    offset, totalCount, batchSize, procIdx, ticker, cycles,
                    calls, result, preLive, cycleSrc, inserted, repeat, mainPc,
                    connections, err, quit>>

\* Task j calls Process(batch) or GetBatch(size) on the processor.
CallerCall(j) ==
  /\ tasks[j].pc = "idle"
  /\ \/ \E batch \in UNION {[1..n -> {SourceRecord(k) : k \in 1..MaxBatch}] :
                              n \in 1..MaxBatch} :
          /\ Len(batchIn) + Len(batch) <= MaxBuffer
          /\ batchIn' = batchIn \o batch
          /\ tasks' = [tasks EXCEPT ![j] =
                         [pc |-> "lock", op |-> "Process", records |-> batch,
                          size |-> 0]]
     \/ \E size \in 1..MaxBatch :
          /\ Len(drained) < Len(batchIn)
          /\ tasks' = [tasks EXCEPT ![j] =
                         [pc |-> "lock", op |-> "GetBatch", records |-> <<>>,
                          size |-> size]]
          /\ UNCHANGED batchIn
  /\ UNCHANGED <<processorFixed, processor, buffer, drained>>

\* p.mu.Lock() of task j returns.
CallerLock(j) ==
  /\ tasks[j].pc = "lock"
  /\ MutexFree(processor.mu)
  /\ processor' = [processor EXCEPT !.mu = j]
  /\ tasks' = [tasks EXCEPT ![j].pc = IF tasks[j].op = "Process"
                                      THEN "append" ELSE "take"]
  /\ UNCHANGED <<processorFixed, buffer, batchIn, drained>>

\* Process, one iteration of its loop: the next record is processed and, if
\* not nil, appended to the buffer.
CallerAppend(j) ==
  /\ tasks[j].pc = "append"
  /\ tasks[j].records # <<>>
  /\ buffer' = Process(processor, buffer, <<Head(tasks[j].records)>>)
  /\ tasks' = [tasks EXCEPT ![j].records = Tail(@),
                            ![j].pc = IF Len(tasks[j].records) = 1
                                      THEN "unlock" ELSE "append"]
  /\ UNCHANGED <<processorFixed, processor, batchIn, drained>>

\* GetBatch: size is capped by the buffer's length and batch is the
\* buffer's prefix of that size.
CallerTake(j) ==
  /\ tasks[j].pc = "take"
  /\ tasks' = [tasks EXCEPT ![j].size = Min(@, Len(buffer)),
                            ![j].records = GetBatchTaken(buffer, tasks[j].size),
                            ![j].pc = "cut"]
  /\ UNCHANGED <<processorFixed, processor, buffer, batchIn, drained>>

\* GetBatch: p.buffer = p.buffer[size:].
CallerCut(j) ==
  /\ tasks[j].pc = "cut"
  /\ buffer' = GetBatchRest(buffer, tasks[j].size)
  /\ tasks' = [tasks EXCEPT ![j].pc = "unlock"]
  /\ UNCHANGED <<processorFixed, processor, batchIn, drained>>

\* The deferred p.mu.Unlock() and the return: GetBatch returns its batch.
CallerUnlock(j) ==
  /\ tasks[j].pc = "unlock"
  /\ processor' = [processor EXCEPT !.mu = 0]
  /\ drained' = drained \o tasks[j].records
  /\ tasks' = [tasks EXCEPT ![j] = IdleCaller]
  /\ UNCHANGED <<processorFixed, buffer, batchIn>>

NextConcurrent ==
  \E j \in Jobs :
    \/ CallerCall(j)
    \/ CallerLock(j)
    \/ CallerAppend(j)
    \/ CallerTake(j)
    \/ CallerCut(j)
    \/ CallerUnlock(j)

SpecConcurrent == InitConcurrent /\ [][NextConcurrent]_vars

\* ------------------------------- jobs that share one target connection
\* The target table names of the configured jobs.
TargetTables == {"t", "t_temp", "t_backup"}

\* A row that job j wrote.
RowOf(j) == [c \in {vendorName, tac} |-> ToString(j)]

\* syncTables' tempTableName of job j.
JobTempTable(j) == tasks[j].target \o cfg.TempTableSuffix

\* Jobs on one MariaDB connection, no two with the same target table; the
\* live table of each holds a row of its own.
InitShared ==
  /\ cfg \in {c \in SyncConfigs :
                /\ c.engine = "mariadb" /\ c.srcKind = "table"
                /\ c.BatchSize = 1 /\ c.TempTableSuffix = "_temp"
                /\ c.SyncInterval = 5}
  /\ source = <<>>
  /\ changes = 0
  /\ tasks \in {f \in [Jobs -> [pc : {"create"}, target : TargetTables,
                                 cycles : {1}]] :
                  \A j, k \in Jobs : j # k => f[j].target # f[k].target}
  /\ tables = [n \in {tasks[j].target : j \in Jobs} |->
                 <<RowOf(CHOOSE j \in Jobs : tasks[j].target = n)>>]
  /\ processor = NewDataProcessor(NilSchema, NilSchema, "")
  /\ buffer = <<>>
  /\ sourceData = <<>>
  /\ dataLoaded = FALSE
  /\ pc = "shared"
  /\ offset = 0
  /\ totalCount = 0
  /\ batchSize = 0
  /\ procIdx = 0
  /\ ticker = "none"
  /\ cycles = 0
  /\ calls = <<>>
  /\ result = [status |-> "none", step |-> ""]
  /\ preLive = Absent
  /\ cycleSrc = <<>>
  /\ inserted = <<>>
  /\ repeat = FALSE
  /\ batchIn = <<>>
  /\ drained = <<>>
  /\ mainPc = "serving"
  /\ connections = [d \in {Databases[i] : i \in 1..Len(Databases)} |-> "ok"]
  /\ err = "nil"
  /\ quit = FALSE

\* Job j's syncTables step 1: CreateTempTable on its temp table name.
JobCreateTempTable(j) ==
  /\ tasks[j].pc = "create"
  /\ \E outcome \in {"drop_err", "create_err", "ok"} :
       /\ tables' = CreateTempTableTables(tables, JobTempTable(j), outcome)
       /\ tasks' = [tasks EXCEPT ![j].pc = IF outcome = "ok" THEN "insert"
                                           ELSE "wait"]
  /\ UNCHANGED <<jobVarsButTables, buffer, batchIn, drained, mainPc,
                 connections, err, quit>>

\* Job j's processData: one batch is inserted into its temp table; after an
\* error the temp table is dropped and the cycle fails.
JobInsertBatch(j) ==
  /\ tasks[j].pc = "insert"
  /\ \E insertOk \in BOOLEAN :
       IF insertOk /\ Exists(tables, JobTempTable(j))
       THEN /\ tables' = Put(tables, JobTempTable(j),
                             tables[JobTempTable(j)] \o <<RowOf(j)>>)
            /\ tasks' = [tasks EXCEPT ![j].pc = "swap"]
       ELSE \E ok \in BOOLEAN :
              /\ tables' = DropTable(tables, JobTempTable(j), ok)
              /\ tasks' = [tasks EXCEPT ![j].pc = "wait"]
  /\ UNCHANGED <<jobVarsButTables, buffer, batchIn, drained, mainPc,
                 connections, err, quit>>

\* Job j's SwapTables on a MariaDB target: the backup of its live table is
\* dropped and the two renames are applied, or the statement fails.
JobSwapTables(j) ==
  /\ tasks[j].pc = "swap"
  /\ \E renameOk \in BOOLEAN :
       LET backupTable == MariaBackupName(tasks[j].target)
           t1 == DropT(tables, backupTable)
       IN  IF renameOk /\ MariaRenameOK(t1, tasks[j].target, JobTempTable(j),
                                        backupTable)
           THEN /\ tables' = MariaRename(t1, tasks[j].target, JobTempTable(j),
                                         backupTable)
                /\ tasks' = [tasks EXCEPT ![j].pc = "cleanup"]
           ELSE /\ tables' = t1
                /\ tasks' = [tasks EXCEPT ![j].pc = "wait"]
  /\ UNCHANGED <<jobVarsButTables, buffer, batchIn, drained, mainPc,
                 connections, err, quit>>

\* Job j's syncTables step 4: DropTable on its temp table name.
JobDropTable(j) ==
  /\ tasks[j].pc = "cleanup"
  /\ \E ok \in BOOLEAN :
       tables' = DropTable(tables, JobTempTable(j), ok)
  /\ tasks' = [tasks EXCEPT ![j].pc = "wait"]
  /\ UNCHANGED <<jobVarsButTables, buffer, batchIn, drained, mainPc,
                 connections, err, quit>>

\* Job j's Run receives a tick and starts its next cycle.
JobTick(j) ==
  /\ tasks[j].pc = "wait"
  /\ tasks[j].cycles < MaxCycles
  /\ tasks' = [tasks EXCEPT ![j].pc = "create", ![j].cycles = @ + 1]
  /\ UNCHANGED <<jobAndProcessorVars, mainPc, connections, err, quit>>

NextShared ==
  \/ \E j \in Jobs : JobCreateTempTable(j)
  \/ \E j \in Jobs : JobInsertBatch(j)
  \/ \E j \in Jobs : JobSwapTables(j)
  \/ \E j \in Jobs : JobDropTable(j)
  \/ \E j \in Jobs : JobTick(j)

SpecShared == InitShared /\ [][NextShared]_vars

\* ------------------------------------------------------- claim definitions
LiveTable == Read(tables, TargetTable)

\* The rows a complete extraction of the given source records writes.
RowsOf(records) ==
  BatchRows(Process(processor, <<>>, records), GetTargetColumns(processor))

\* The complete data set the current cycle extracts: the source rows read at
\* its start, or the preloaded records of a query source.
NewDataSet ==
  IF cfg.srcKind = "table" THEN RowsOf(SourceRecords(cycleSrc))
  ELSE RowsOf(sourceData)

Returned == result.status \in {"ok", "failed"}

\* C1: during and after every cycle the live table is present and holds
\* either the complete pre-cycle data or the complete newly extracted data.
C1_LiveOldOrNew ==
  (cycles >= 1 /\ preLive # Absent) =>
     (LiveTable = preLive \/ LiveTable = NewDataSet)

\* C2: once a cycle in which a source read or InsertBatch failed has
\* returned, the cycle is reported failed, the live table holds its pre-cycle
\* content and the temp table no longer exists.
C2_FailureContained ==
  (Returned /\ result.step \in {"count", "batch", "insert"}) =>
     /\ result.status = "failed"
     /\ LiveTable = preLive
     /\ ~Exists(tables, TempTableName(cfg))

\* C3: SwapTables is called only after CreateTempTable and every source read
\* and InsertBatch of the cycle returned success, and no InsertBatch follows it.
C3_SwapAfterAllBatches ==
  \A i \in 1..Len(calls) :
    calls[i].op = "SwapTables" =>
      /\ i > 1
      /\ calls[1].op = "CreateTempTable"
      /\ \A j \in 1..(i - 1) : calls[j].res = "ok"
      /\ \A j \in (i + 1)..Len(calls) : calls[j].op # "InsertBatch"

C3_Witness ==
  \E i \in 1..Len(calls) :
    /\ calls[i].op = "SwapTables"
    /\ Cardinality({j \in 1..(i - 1) : calls[j].op = "InsertBatch"}) >= 2
    /\ \E j \in 1..(i - 1) : calls[j].op = "GetBatch"

\* Every table of the target database other than the live one: whatever
\* could still hold the previous generation, under any name.
BackupTables == DOMAIN tables \ {TargetTable}

\* C4: after a successful swap and the cycle's cleanup exactly one backup
\* table exists, holding the data the live table had before the swap.
C4_OneBackupRetained ==
  result.status = "ok" =>
     /\ Cardinality(BackupTables) = 1
     /\ \A b \in BackupTables : tables[b] = preLive

RECURSIVE InsertSizes(_)
InsertSizes(cs) ==
  IF cs = <<>> THEN <<>>
  ELSE IF Head(cs).op = "InsertBatch" /\ Head(cs).res = "ok"
       THEN <<Head(cs).n>> \o InsertSizes(Tail(cs))
       ELSE InsertSizes(Tail(cs))

\* b, ..., b and a final n mod b when that is not zero.
ExpectedSizes(n, b) ==
  [i \in 1..((n + b - 1) \div b) |-> IF i * b <= n THEN b ELSE n % b]

StreamingDone == pc = "swap" /\ ~dataLoaded

\* C6: a streaming cycle over an unmodified source of N rows with batch size
\* b inserts batches of sizes b, ..., b, N mod b and every source row exactly
\* once.
C6_StreamingBatches ==
  StreamingDone =>
     /\ InsertSizes(calls) = ExpectedSizes(Len(cycleSrc), cfg.BatchSize)
     /\ inserted = RowsOf(SourceRecords(cycleSrc))
     /\ Read(tables, TempTableName(cfg)) = inserted

C6_Witness ==
  /\ StreamingDone
  /\ Len(cycleSrc) = 3
  /\ cfg.BatchSize = 2
  /\ InsertSizes(calls) = <<2, 1>>

\* C7: the second of two consecutive successful cycles over an unchanged
\* source leaves the live table with the content the first one produced.
C7_Idempotent ==
  (result.status = "ok" /\ repeat) => LiveTable = preLive

C7_Witness ==
  /\ result.status = "ok"
  /\ repeat
  /\ cycles = 2
  /\ Len(LiveTable) >= 2

\* C9: after a successful cycle the live table holds the source as it was
\* when that cycle started, for a table and for a query source alike.
C9_FreshEveryCycle ==
  result.status = "ok" => LiveTable = RowsOf(SourceRecords(cycleSrc))

\* C10: Run does one cycle at once and one per tick, and a failing cycle is
\* only logged: the job's loop is never ended by it.
C10_RunNeverStops ==
  pc # "panic"

\* What the processor has produced, in order: drained and still buffered.
ProcessorOutput == drained \o buffer

\* C8: with the identity transform the keys of an output record are the
\* image under the column mapping of the input keys the mapping covers, with
\* the values carried over: a source column without a match is dropped.
C8_MappedKeysOnly ==
  (pc = "processor" /\ ~processor.sourceSchema.isNil
                    /\ ~processor.targetSchema.isNil) =>
     /\ Len(ProcessorOutput) = Len(batchIn)
     /\ \A i \in 1..Len(batchIn) :
          LET M == processor.columnMapping
              K == DOMAIN batchIn[i] \cap DOMAIN M
          IN  /\ DOMAIN ProcessorOutput[i] = {M[k] : k \in K}
              /\ \A k \in K : ProcessorOutput[i][M[k]] = batchIn[i][k]

\* C11: once main has received the shutdown signal no job task starts
\* another cycle.
C11_NoCycleAfterSignal ==
  [][quit => \A j \in Jobs : tasks'[j].cycles = tasks[j].cycles]_vars

\* C12: after the shutdown signal main always reaches shutdown-complete.
C12_ShutdownCompletes ==
  quit ~> (mainPc = "complete")

C14_RunIffOwnCreation ==
  \A j \in Jobs :
    /\ tasks[j].pc = "returned" => tasks[j].syncService = "nil"
    /\ tasks[j].pc \in {"cycle", "wait", "dead"} =>
         tasks[j].syncService = "created"

\* C15: a connect or ping failure of one configured database does not
\* terminate the process: main goes on past the failed connection.
C15_ConnectFailureContained ==
  \A d \in {Databases[i] : i \in 1..Len(Databases)} :
    connections[d] = "failed" => mainPc # Fatalf

RECURSIVE ExecutedProcedures(_)
ExecutedProcedures(cs) ==
  IF cs = <<>> THEN <<>>
  ELSE LET rest == ExecutedProcedures(SubSeq(cs, 1, Len(cs) - 1))
           last == cs[Len(cs)]
       IN  IF last.op = "ExecuteProcedure" /\ last.res \in {"ok", "err"}
           THEN Append(rest, last.off)
           ELSE rest

\* C17: a cycle whose swap succeeded returns success after the target has
\* run every configured procedure exactly once, in configured order, whether
\* or not some of them failed.
C17_ProceduresRunInOrder ==
  (pc = "wait" /\ \E i \in 1..Len(calls) :
                    calls[i].op = "SwapTables" /\ calls[i].res = "ok")
    => /\ result.status = "ok"
       /\ ExecutedProcedures(calls) = [i \in 1..Len(PostProcedure) |-> i]

\* The target columns of the processor whose name, lower-cased and without
\* underscores, equals that of the source column name.
MatchesOf(name) ==
  {j \in 1..Len(processor.targetSchema.Columns) :
     ToLower(RemoveUnderscores(processor.targetSchema.Columns[j].Name))
       = ToLower(RemoveUnderscores(name))}

\* C18: the column mapping has an entry for exactly the source columns that
\* some target column matches after normalisation, and the entry is the
\* first such target column in target schema order; VENDOR_NAME matches
\* vendorName.
C18_FirstNormalisedMatch ==
  LET src == processor.sourceSchema.Columns
      tgt == processor.targetSchema.Columns
      mapping == processor.columnMapping
  IN  /\ DOMAIN mapping \subseteq {src[i].Name : i \in 1..Len(src)}
      /\ \A i \in 1..Len(src) :
           IF MatchesOf(src[i].Name) = {}
           THEN src[i].Name \notin DOMAIN mapping
           ELSE /\ src[i].Name \in DOMAIN mapping
                /\ \E j \in MatchesOf(src[i].Name) :
                     /\ mapping[src[i].Name] = tgt[j].Name
                     /\ \A k \in MatchesOf(src[i].Name) : j <= k
      /\ (Len(tgt) > 0 /\ tgt[1].Name = vendorName
             /\ \E i \in 1..Len(src) : src[i].Name = VENDOR_NAME)
           => mapping[VENDOR_NAME] = vendorName

\* The processor of a source with VENDOR_NAME and MODEL_NAME and a target
\* with vendor_name before vendorName has processed a record: VENDOR_NAME
\* has two matches and MODEL_NAME has none.
C18_Witness ==
  /\ pc = "processor"
  /\ buffer # <<>>
  /\ \E i, k \in 1..Len(processor.sourceSchema.Columns) :
       /\ processor.sourceSchema.Columns[i].Name = VENDOR_NAME
       /\ processor.sourceSchema.Columns[k].Name = MODEL_NAME
  /\ Cardinality(MatchesOf(VENDOR_NAME)) = 2
  /\ MatchesOf(MODEL_NAME) = {}
  /\ processor.columnMapping[VENDOR_NAME] = vendor_name

\* The position of a column name in the target schema of the processor.
TargetPosition(name) ==
  CHOOSE j \in 1..Len(processor.targetSchema.Columns) :
    processor.targetSchema.Columns[j].Name = name

\* C19: the column list of every InsertBatch call holds each target schema
\* column whose AutoIncrement flag is false, once and in schema order, and
\* never holds an autoincrement column.
C19_InsertColumns ==
  \A i \in 1..Len(calls) :
    calls[i].op = "InsertBatch" =>
      LET tgt == processor.targetSchema.Columns
          cols == calls[i].columns
      IN  /\ \A k \in 1..Len(cols) :
               \E j \in 1..Len(tgt) :
                 tgt[j].Name = cols[k] /\ ~tgt[j].AutoIncrement
          /\ \A j \in 1..Len(tgt) :
               ~tgt[j].AutoIncrement => \E k \in 1..Len(cols) : cols[k] = tgt[j].Name
          /\ \A k, l \in 1..Len(cols) :
               k < l => TargetPosition(cols[k]) < TargetPosition(cols[l])

\* A batch has been inserted for a target schema that has an autoincrement
\* column before its other columns.
C19_Witness ==
  /\ \E i \in 1..Len(calls) :
       /\ calls[i].op = "InsertBatch"
       /\ calls[i].res = "ok"
       /\ Len(calls[i].columns) = 2
  /\ processor.targetSchema.Columns[1].AutoIncrement
  /\ Len(inserted) > 0

\* C20: a job that runs on a configuration whose file leaves out
\* temp_table_suffix or sync_interval runs with the suffix "_temp" and the
\* interval of 5 minutes.
C20_DefaultsApplied ==
  cycles > 0 =>
    \A f \in ConfigFiles :
      GetConfig(f) = cfg =>
        /\ f.temp_table_suffix = Omitted => TempTableName(cfg) = TargetTable \o "_temp"
        /\ f.sync_interval = Omitted => cfg.SyncInterval = 5

\* The live table of job j.
JobLiveTable(j) == Read(tables, tasks[j].target)

\* C21: jobs with different target tables on one connection never touch
\* each other's tables: the live table of every job exists at all times and
\* holds rows of that job only.
C21_JobsTablesDisjoint ==
  \A j \in Jobs :
    /\ JobLiveTable(j) # Absent
    /\ \A i \in 1..Len(JobLiveTable(j)) : JobLiveTable(j)[i] = RowOf(j)

\* C22: for every configured suffix the job never calls CreateTempTable,
\* InsertBatch or DropTable on the name of the live table, and while no
\* SwapTables call has been made in the cycle the live table is as it was
\* when the cycle started.
C22_LiveOnlyBySwap ==
  /\ \A i \in 1..Len(calls) :
       calls[i].op \in {"CreateTempTable", "InsertBatch", "DropTable"} =>
         TempTableName(cfg) # TargetTable
  /\ (cycles > 0 /\ \A i \in 1..Len(calls) : calls[i].op # "SwapTables")
       => LiveTable = preLive

\* The positions of the GetBatch calls of the cycle.
GetBatchCalls == {i \in 1..Len(calls) : calls[i].op = "GetBatch"}

\* C23: in a streaming cycle GetCount is called once and before every
\* GetBatch, the first GetBatch is at offset 0, every GetBatch is at an
\* offset below the total, and no GetBatch follows one that returned fewer
\* records than its limit.
C23_PaginationStops ==
  /\ Cardinality({i \in 1..Len(calls) : calls[i].op = "GetCount"}) <= 1
  /\ \A i \in GetBatchCalls :
       /\ \E g \in 1..(i - 1) : calls[g].op = "GetCount" /\ calls[g].res = "ok"
       /\ (\A h \in GetBatchCalls : i <= h) => calls[i].off = 0
       /\ calls[i].off < totalCount
       /\ \A h \in GetBatchCalls :
            (h < i /\ calls[h].res = "ok") => calls[h].n >= calls[h].limit

\* C24: every GetBatch request of a cycle asks for the configured batch
\* size, and the offset advances by the configured batch size from one
\* request to the next: a reduced batch size is used by no request, in this
\* cycle or the next.
C24_ReducedSizeFinalOnly ==
  \A i \in GetBatchCalls :
    /\ calls[i].limit = cfg.BatchSize
    /\ calls[i].off = cfg.BatchSize * Cardinality({h \in GetBatchCalls : h < i})

\* C25: a cycle that follows one that failed in extraction or insertion
\* starts with an empty processor buffer, and every cycle enters its loop at
\* offset 0 with the configured batch size, nothing inserted and an empty
\* temp table: nothing of the failed cycle is resumed or inserted later.
C25_FailedCycleNotResumed ==
  /\ [][(/\ cycles' = cycles + 1
          /\ result.status = "failed"
          /\ result.step \in {"count", "batch", "insert"}) => buffer' = <<>>]_vars
  /\ []((/\ pc \in {"streaming", "preloaded"}
         /\ \A i \in 1..Len(calls) : calls[i].op \notin {"GetBatch", "InsertBatch"})
          => /\ offset = 0
             /\ batchSize = cfg.BatchSize
             /\ buffer = <<>>
             /\ inserted = <<>>
             /\ Read(tables, TempTableName(cfg)) = <<>>)

\* The second cycle has started after the first one failed at an insertion
\* and left a part of the source rows in the temp table.
C25_Witness ==
  /\ cycles = 2
  /\ pc = "create"
  /\ ~repeat
  /\ changes = 0
  /\ cfg.srcKind = "table"
  /\ Exists(tables, TempTableName(cfg))
  /\ Len(tables[TempTableName(cfg)]) > 0
  /\ Len(tables[TempTableName(cfg)]) < Len(source)
  /\ buffer = <<>>

\* C26: when CreateTempTable fails, the cycle has returned an error for that
\* step and the failed CreateTempTable is the only connector call of the
\* cycle.
C26_CreateFailureEndsCycle ==
  \A i \in 1..Len(calls) :
    (calls[i].op = "CreateTempTable" /\ calls[i].res # "ok") =>
      /\ Len(calls) = 1
      /\ result = [status |-> "failed", step |-> "create"]

\* The row of source row k under the column mapping: each target column
\* holds the value of the source column with the same normalised name.
MappedRow(k) ==
  [c \in {vendorName, tac} |->
     IF c = vendorName THEN SourceRecord(k)[VENDOR_NAME] ELSE SourceRecord(k)[TAC]]

\* C27: the rows a job with a query source inserts are the preloaded
\* records under the column mapping, as for a table source: every inserted
\* row holds, under the target column names, the values of a source row.
C27_PreloadedMapped ==
  cfg.srcKind = "query" =>
    \A i \in 1..Len(inserted) :
      \E k \in 1..(2 * MaxRows) : inserted[i] = MappedRow(k)

\* C28: GetPreloadedBatch leaves the preloaded records as they were
\* loaded, for every transform function: each of them is still a record of
\* the source query, keyed by the source column names.
C28_PreloadedUnchanged ==
  \A i \in 1..Len(sourceData) :
    \E k \in 1..(2 * MaxRows) : sourceData[i] = SourceRecord(k)

\* C29: after the shutdown signal a job task that is idle between two
\* cycles terminates: its Run returns and its goroutine is done.
C29_IdleTasksReturn ==
  \A j \in Jobs :
    (quit /\ tasks[j].pc = "wait") ~> (tasks[j].pc = "returned")

C32_UnresolvedNeverStarted ==
  (/\ pc # "new"
   /\ changes = 0
   /\ Len(source) > 0
   /\ processor.sourceSchema.isNil
   /\ ~dataLoaded) => (pc = "notstarted" /\ cycles = 0)

\* C37: a job with a query source whose initial fetch returned the rows of
\* the query, however many, calls neither GetCount nor GetBatch on the
\* source, and no cycle of it fails at the count.
C37_QueryAlwaysPreloaded ==
  (cfg.srcKind = "query" /\ pc # "new" /\ changes = 0
   /\ Len(sourceData) = Len(source)) =>
    /\ \A i \in 1..Len(calls) : calls[i].op \notin {"GetCount", "GetBatch"}
    /\ result.step # "count"

\* C39: in the first cycle against a target without the live table, the
\* renames SwapTables is about to execute can succeed: the MariaDB RENAME
\* TABLE once the backup is dropped, the first Oracle rename at the swap.
C39_SwapWithoutLive ==
  (cycles = 1 /\ preLive = Absent) =>
    /\ pc = "swap_rename" =>
         MariaRenameOK(tables, TargetTable, TempTableName(cfg),
                       MariaBackupName(TargetTable))
    /\ (pc = "swap" /\ cfg.engine = "oracle") =>
         RenameOK(tables, TargetTable, OracleBackupName(TargetTable, cycles))

\* C35: once NewSyncService has returned, no step of a job changes its source
\* schema, target schema, column mapping, transform function or
\* configuration.
C35_JobFieldsFrozen ==
  [][pc # "new" => (processor' = processor /\ cfg' = cfg)]_vars

\* A second cycle has failed and returned, after a first one, in a job with
\* an introspected source schema and a column mapping.
C35_Witness ==
  /\ pc = "wait"
  /\ cycles = 2
  /\ result.status = "failed"
  /\ processor.sourceSchema = IntrospectedSourceSchema
  /\ processor.targetSchema = ConfiguredTargetSchema
  /\ DOMAIN processor.columnMapping # {}

\* C33: what the processor has returned and still buffers is, in order and
\* once each, the processed records of every batch handed to Process; and a
\* GetBatch returns the min(n, buffer length) oldest buffered records, for a
\* requested n, and removes exactly those from the buffer.
C33_FifoExactlyOnce ==
  /\ [](ProcessorOutput = Process(processor, <<>>, batchIn))
  /\ [][drained' # drained =>
          \E n \in 1..MaxBatch :
            LET k == Min(n, Len(buffer))
            IN  /\ drained' = drained \o SubSeq(buffer, 1, k)
                /\ buffer' = SubSeq(buffer, k + 1, Len(buffer))]_vars

\* Two different records were processed; GetBatch has returned the first and
\* the second is still buffered.
C33_Witness ==
  /\ pc = "processor"
  /\ Len(batchIn) = 2
  /\ batchIn[1] # batchIn[2]
  /\ Len(drained) = 1
  /\ Len(buffer) = 1
  /\ drained[1] # buffer[1]

\* C38: with a transform that drops records, a successful cycle has inserted
\* exactly the records of the source that the transform keeps, once each and
\* in order.
C38_KeptRecordsOnce ==
  result.status = "ok" => inserted = NewDataSet

\* C36: once main has started its jobs, every configured source/target pair
\* has a job task, whichever form its sync entry is written in.
C36_OneTaskPerPair ==
  mainPc = "serving" => \A j \in Jobs : tasks[j].pc # "unlaunched"

\* The schema the priority order gives an endpoint: its explicit column list
\* when there is one, otherwise the introspected shape of its table or query.
SchemaByPriority(e) ==
  IF e.Columns # <<>> THEN TableSchema(e.Columns) ELSE ExecuteSelectWithSchema(e)

\* C31: a created job has, for its source and for its target, the schema the
\* priority order gives: explicit columns, else the table, else the query.
C31_SchemaPriority ==
  pc = "run" =>
    /\ processor.sourceSchema = SchemaByPriority(cfg.Source)
    /\ processor.targetSchema = SchemaByPriority(cfg.Target)

\* processData is in one of its loops.
InLoop == pc \in {"streaming", "preloaded"}

\* C40: for every total count, batch size and batch length the source
\* returns, a loop iteration of processData that does not leave the loop
\* ends with a strictly larger offset, and the offset of a running loop is
\* below the total count: the loop exits after at most that many iterations.
C40_OffsetAdvances ==
  /\ [](InLoop => (offset >= 0 /\ offset < totalCount))
  /\ [][(InLoop /\ pc' = pc) => offset' > offset]_vars

\* The streaming loop goes on with a batch size that a short batch has cut
\* down, after the source returned more records than asked for: one of them
\* is still buffered.
C40_Witness ==
  /\ pc = "streaming"
  /\ offset > 0
  /\ batchSize = 1
  /\ cfg.BatchSize = 2
  /\ Len(buffer) > 0

\* How many times record r occurs in the sequence s.
Occurrences(s, r) == Cardinality({i \in 1..Len(s) : s[i] = r})

\* Every task is outside the processor.
AllIdle == \A j \in Jobs : tasks[j].pc = "idle"

\* C34: with tasks calling Process and GetBatch concurrently, whenever no
\* call is under way the records returned by the GetBatch calls together
\* with the records still buffered are, as a multiset, the records
\* processed; and at no time has a record been returned more often than it
\* was processed.
C34_NoneLostNoneTwice ==
  LET processed == Process(processor, <<>>, batchIn)
      Records == {processed[i] : i \in 1..Len(processed)}
                   \cup {drained[i] : i \in 1..Len(drained)}
                   \cup {buffer[i] : i \in 1..Len(buffer)}
  IN  \A r \in Records :
        /\ Occurrences(drained, r) <= Occurrences(processed, r)
        /\ AllIdle => Occurrences(drained \o buffer, r) = Occurrences(processed, r)

\* Two tasks have called Process and GetBatch at the same time: one is
\* inside Process, holding the mutex, the other waits in GetBatch's Lock,
\* and a record is already buffered.
C34_Witness ==
  /\ pc = "concurrent"
  /\ \E j, k \in Jobs :
       /\ tasks[j].op = "Process" /\ tasks[j].pc = "append"
       /\ processor.mu = j
       /\ tasks[k].op = "GetBatch" /\ tasks[k].pc = "lock"
  /\ Len(buffer) > 0

====
